---- MODULE Spec2Model ----
(***************************************************************************)
(* Seat-booking coordination pipeline of arunvm123/event-booking:          *)
(*   - the hold engine of event-service (seat and hold rows, PostgreSQL),  *)
(*   - the booking front door of booking-service (SubmitBooking),          *)
(*   - the booking worker pool (processBooking) and the message log.       *)
(* One event with the seats generateSeats produces for total_seats = 2.    *)
(* The store runs at the database default isolation (READ COMMITTED): the  *)
(* repository opens its transactions with db.Begin() and no options, and   *)
(* CreateHold runs its two checks on r.db, outside the transaction.        *)
(***************************************************************************)
EXTENDS Integers, Sequences, FiniteSets, TLC

\* ------------------------------------------------------------------ bounds
\* hold rows that may be inserted
MaxHolds == 2
\* last value of the clock
MaxTime == 3
\* concurrent HoldSeats requests
NumClients == 2
\* concurrent SubmitBooking requests
NumSubmitters == 2
\* booking rows that may be inserted
MaxBookings == 2
\* workers of the pool (maxWorkers := 20 in NewBookingProcessor)
NumWorkers == 2
\* messages the log may deliver a second time (at-least-once delivery)
MaxRedeliveries == 1
\* messages on the topic whose value is not a BookingRequest
MaxUndecodable == 1

\* the clock counts units of 15 minutes: time.Now().Add(15 * time.Minute)
HoldTTL == 1

\* Seat.HoldID is a *string; nil is the SQL NULL. Hold ids are 1, 2, ...
NULL == 0

\* total_seats and row widths generateSeats is run with
MaxSeats == 30
MaxRowWidth == 3

\* seat rows of the event: generateSeats(eventID, 2)
SeatLabels == {"A1", "A2"}

\* seat_numbers arrays a HoldSeats request may carry (binding: min=1);
\* Z99 is a label with no seat row, <<"A1","A1">> repeats a label
ReqSeatNumbers ==
    { <<"A1">>, <<"A2">>, <<"A1", "A2">>, <<"A1", "Z99">>, <<"A1", "A1">> }

Clients == 1..NumClients
HoldIds == 1..MaxHolds
Submitters == 1..NumSubmitters
BookingIds == 1..MaxBookings
Workers == 1..NumWorkers

VARIABLES
    seats,       \* seats table: label -> [status, hold_id]
    holds,       \* holds table: sequence of rows, the index is the id
    now,         \* NOW() of the store and time.Now() of the services
    hreq,        \* per client: the HoldSeats request in flight
    sweep,       \* CleanupExpiredHolds: its position, the holds it selected, its NOW()
    seatsCache,  \* event:<id>:seats:available: [hit, val], val a set of labels
    countCache,  \* event:<id>:seats:count, -1 (miss) or a count
    resp,        \* the last HTTP response sent: [op, id, code, labels], labels
                 \* being the seat labels the body carries
    bookings,    \* bookings table: sequence of rows, the index is the id
    sub,         \* per submitter: the SubmitBooking request in flight
    log,         \* the booking-requests topic, in delivery order
    offset,      \* messages the reader has taken from the log
    redelivered, \* deliveries the log has repeated
    workers,     \* per worker: position in processBooking and its message
    statusCache, \* booking_status:<id>: "none" or the snapshot's status
    notifications, \* notification-requests topic: per booking, count per type
    gev,         \* the GetEvent request in flight: its position and what
                 \* it has read from the store
    gen,         \* the last run of generateSeats: its inputs and the labels
                 \* of the seats it returned, each a sequence of code points
    stream,      \* the StreamBookingStatus connection: its position, the
                 \* booking row it holds and the events it has written
    reader,      \* BookingProcessor.Start: its position, the message it has
                 \* read and, in shutdown, the worker it stops next
    ctxDone,     \* the context of Start has been cancelled
    workerPool,  \* the workerPool channel: the workers registered in it
    activeWorkers, \* the activeWorkers counter
    processExited, \* main has returned: the process is gone
    envelope     \* bookingRequestPool and the BookingRequest taken from it:
                 \* position, the object in use, the message decoded into
                 \* it, the objects lying in the pool

engineVars == <<seats, holds, now, hreq, sweep, seatsCache, countCache>>
bookingVars == <<bookings, sub, log, offset, redelivered, workers, statusCache, notifications>>
\* the state of the read paths and of the worker pool's control flow
auxVars == <<gev, gen, stream, envelope>>
\* the control state of the worker pool
poolVars == <<reader, ctxDone, workerPool, activeWorkers, processExited>>
vars == <<seats, holds, now, hreq, sweep, seatsCache, countCache, resp,
          bookings, sub, log, offset, redelivered, workers, statusCache, notifications,
          gev, gen, stream,
          reader, ctxDone, workerPool, activeWorkers, processExited, envelope>>

Range(s) == { s[i] : i \in DOMAIN s }

\* ------------------------------------------------- SQL three-valued logic
\* truth values of a WHERE clause: "T", "F" and "N" (NULL)
SqlAnd(a, b) ==
    IF a = "F" \/ b = "F" THEN "F"
    ELSE IF a = "N" \/ b = "N" THEN "N" ELSE "T"

SqlOr(a, b) ==
    IF a = "T" \/ b = "T" THEN "T"
    ELSE IF a = "N" \/ b = "N" THEN "N" ELSE "F"

SqlNot(a) == IF a = "N" THEN "N" ELSE IF a = "T" THEN "F" ELSE "T"

SqlBool(b) == IF b THEN "T" ELSE "F"

\* variant of HoldExpiredSql that trusts the status column of the hold row
\* instead of comparing expires_at with NOW()
HoldExpiredSql_ByStatus(s) ==
    IF seats[s].hold_id = NULL \/ seats[s].hold_id > Len(holds)
    THEN "N"
    ELSE SqlBool(holds[seats[s].hold_id].status = "expired")

\* h.expires_at < NOW() on the row of seats s LEFT JOIN holds h ON s.hold_id = h.id
HoldExpiredSql(s) ==
    IF seats[s].hold_id = NULL \/ seats[s].hold_id > Len(holds)
    THEN "N"
    ELSE SqlBool(holds[seats[s].hold_id].expires_at < now)

\* s.status = 'available' OR (s.status = 'held' AND h.expires_at < NOW())
AvailableWhere(s) ==
    SqlOr(SqlBool(seats[s].status = "available"),
          SqlAnd(SqlBool(seats[s].status = "held"), HoldExpiredSql(s)))

\* variant of UnavailableWhere without the expiry clause: every seat that is not
\* available counts as unavailable
UnavailableWhere_NoExpiry(s) ==
    SqlBool(seats[s].status # "available")

\* s.status != 'available' AND NOT (s.status = 'held' AND h.expires_at < NOW())
UnavailableWhere(s) ==
    SqlAnd(SqlBool(seats[s].status # "available"),
           SqlNot(SqlAnd(SqlBool(seats[s].status = "held"), HoldExpiredSql(s))))

\* ---------------------------------------------------------- seat queries
GetAvailableSeats == { s \in SeatLabels : AvailableWhere(s) = "T" }

GetAvailableSeatCount == Cardinality({ s \in SeatLabels : AvailableWhere(s) = "T" })

\* the labels the query of CheckSeatsAvailability returns
UnavailableSeats(seatNumbers) ==
    { s \in SeatLabels : s \in Range(seatNumbers) /\ UnavailableWhere(s) = "T" }

\* nil, or the error "seats not available"
CheckSeatsAvailability(seatNumbers) ==
    IF Cardinality(UnavailableSeats(seatNumbers)) > 0
    THEN "seats not available" ELSE "nil"

\* the rows SELECT seat_number ... WHERE seat_number = ANY(?) returns
ExistingSeats(seatNumbers) == { s \in SeatLabels : s \in Range(seatNumbers) }

\* the list the error of CheckSeatsExist names: the requested labels that are
\* not among the rows returned, in request order
NonExistentSeats(seatNumbers) ==
    SelectSeq(seatNumbers, LAMBDA x : x \notin ExistingSeats(seatNumbers))

\* nil, or "seat numbers do not exist": the row count is compared with the
\* length of the request
CheckSeatsExist(seatNumbers) ==
    IF Cardinality(ExistingSeats(seatNumbers)) # Len(seatNumbers)
    THEN "seat numbers do not exist" ELSE "nil"

\* ------------------------------------------------------------ seat writes
\* UPDATE seats SET status = 'held', hold_id = ? WHERE seat_number IN (?)
SeatsHeld(seatNumbers, id) ==
    [ s \in SeatLabels |->
        IF s \in Range(seatNumbers)
        THEN [status |-> "held", hold_id |-> id] ELSE seats[s] ]

\* UPDATE seats SET status = 'available', hold_id = NULL WHERE seat_number IN (?)
SeatsReleased(st, seatNumbers) ==
    [ s \in SeatLabels |->
        IF s \in Range(seatNumbers)
        THEN [status |-> "available", hold_id |-> NULL] ELSE st[s] ]

\* UPDATE seats SET status = 'booked' WHERE seat_number IN (?)
SeatsBooked(seatNumbers) ==
    [ s \in SeatLabels |->
        IF s \in Range(seatNumbers)
        THEN [seats[s] EXCEPT !.status = "booked"] ELSE seats[s] ]

\* InvalidateAvailableSeats and InvalidateAvailableSeatCount
InvalidateSeatCaches ==
    /\ seatsCache' = [hit |-> FALSE, val |-> {}]
    /\ countCache' = -1

\* a worker registered in the ready queue, holding no message
IdleWorker == [pc |-> "idle", booking_id |-> NULL, hold_id |-> NULL, outcome |-> "none"]

\* the booking id read from a message value json.Unmarshal rejects
Undecodable == -1

\* the reader holds no message
NoMessage == [booking_id |-> NULL, hold_id |-> NULL]

\* no GetEvent request in flight
IdleGetEvent == [pc |-> "idle", count |-> -1, seat_numbers |-> {}]

\* ----------------------------------------------------- bookingRequestPool
\* &model.BookingRequest{}: uuid.Nil is 0, time.Time{} is 0, a nil slice is << >>
ZeroBookingRequest ==
    [booking_id |-> 0, hold_id |-> 0, seats |-> << >>, timestamp |-> 0]

\* the JSON objects a message value may hold: a key is present with a value or
\* absent; present names the keys of the object
NoValue == [present |-> {}, booking_id |-> 0, hold_id |-> 0, seats |-> << >>, timestamp |-> 0]

MessageValues ==
    { [present |-> ks, booking_id |-> b, hold_id |-> 1, seats |-> sn, timestamp |-> ts] :
        ks \in { {"booking_id", "hold_id", "seats", "timestamp"},
                 {"booking_id", "hold_id", "seats"},
                 {"booking_id", "hold_id", "timestamp"} },
        b \in 1..MaxBookings, sn \in { <<"A1">>, <<"A1", "A2">> }, ts \in 1..MaxTime }

\* json.Unmarshal(msg.Value, bookingReq): a key of the object sets its field, a
\* field whose key is absent keeps the value it had
Unmarshal(req, m) ==
    [booking_id |-> IF "booking_id" \in m.present THEN m.booking_id ELSE req.booking_id,
     hold_id    |-> IF "hold_id" \in m.present THEN m.hold_id ELSE req.hold_id,
     seats      |-> IF "seats" \in m.present THEN m.seats ELSE req.seats,
     timestamp  |-> IF "timestamp" \in m.present THEN m.timestamp ELSE req.timestamp]

\* resetBookingRequest: the fields it assigns; req.Seats[:0] has length 0 (the
\* backing array is kept and cannot be read through the slice). Timestamp is
\* not among the fields assigned
resetBookingRequest(req) ==
    [req EXCEPT !.booking_id = 0, !.hold_id = 0, !.seats = << >>]

\* ---------------------------------------------------------------- Init
Init ==
    /\ seats = [ s \in SeatLabels |-> [status |-> "available", hold_id |-> NULL] ]
    /\ holds = << >>
    /\ now = 0
    /\ hreq = [ c \in Clients |-> [pc |-> "idle", seat_numbers |-> << >>, expires_at |-> 0] ]
    /\ sweep = [pc |-> "idle", sel |-> {}, at |-> 0]
    /\ seatsCache = [hit |-> FALSE, val |-> {}]
    /\ countCache = -1
    /\ resp = [op |-> "none", id |-> NULL, code |-> "none", labels |-> {}]
    /\ bookings = << >>
    /\ sub = [ p \in Submitters |-> [pc |-> "idle", hold_id |-> NULL, booking_id |-> NULL] ]
    /\ log = << >>
    /\ offset = 0
    /\ redelivered = 0
    /\ workers = [ w \in Workers |-> IdleWorker ]
    /\ statusCache = [ b \in BookingIds |-> "none" ]
    /\ notifications = [ b \in BookingIds |-> [booking_confirmed |-> 0, booking_failed |-> 0] ]
    /\ gev = IdleGetEvent
    /\ gen = [variant |-> "none", n |-> 0, r |-> 0, seat_numbers |-> << >>]
    /\ stream = [pc |-> "none", booking_id |-> NULL, status |-> "none", events |-> << >>]
    /\ reader = [pc |-> "loop", msg |-> NoMessage, next |-> 0]
    /\ ctxDone = FALSE
    /\ workerPool = Workers
    /\ activeWorkers = 0
    /\ processExited = FALSE
    /\ envelope = [pc |-> "idle", req |-> ZeroBookingRequest, msg |-> NoValue, free |-> {}]

\* ------------------------------------------------------------- HoldSeats
\* EventHandler.HoldSeats up to the end of the two checks of CreateHold.
\* The checks read the committed store; the transaction has written nothing.
HoldsInFlight == Cardinality({ c \in Clients : hreq[c].pc = "checked" })

HoldSeats_Check(c, seatNumbers) ==
    /\ hreq[c].pc = "idle"
    /\ Len(holds) + HoldsInFlight < MaxHolds
    /\ IF CheckSeatsExist(seatNumbers) # "nil"
       THEN /\ resp' = [op |-> "HoldSeats", id |-> NULL, code |-> "internal_error", labels |-> {}]
            /\ UNCHANGED hreq
       ELSE IF CheckSeatsAvailability(seatNumbers) # "nil"
       THEN /\ resp' = [op |-> "HoldSeats", id |-> NULL, code |-> "seats_unavailable", labels |-> {}]
            /\ UNCHANGED hreq
       ELSE /\ hreq' = [hreq EXCEPT ![c] =
                  [pc |-> "checked", seat_numbers |-> seatNumbers,
                   expires_at |-> now + HoldTTL]]
            /\ UNCHANGED resp
    /\ UNCHANGED <<seats, holds, now, sweep, seatsCache, countCache>>
    /\ UNCHANGED bookingVars
    /\ UNCHANGED auxVars
    /\ UNCHANGED poolVars

\* The transaction of CreateHold: insert the hold row, update the seat rows,
\* commit; then the handler invalidates the seat caches and answers 201.
HoldSeats_Commit(c) ==
    /\ hreq[c].pc = "checked"
    /\ LET id == Len(holds) + 1 IN
       /\ holds' = Append(holds, [seat_numbers |-> hreq[c].seat_numbers,
                                  expires_at |-> hreq[c].expires_at,
                                  status |-> "active"])
       /\ seats' = SeatsHeld(hreq[c].seat_numbers, id)
       /\ resp' = [op |-> "HoldSeats", id |-> id, code |-> "created", labels |-> {}]
    /\ hreq' = [hreq EXCEPT ![c] = [pc |-> "idle", seat_numbers |-> << >>, expires_at |-> 0]]
    /\ InvalidateSeatCaches
    /\ UNCHANGED <<now, sweep>>
    /\ UNCHANGED bookingVars
    /\ UNCHANGED auxVars
    /\ UNCHANGED poolVars

\* tx.Create or the seat UPDATE of CreateHold returns an error: the transaction
\* is rolled back and the handler answers 500
HoldSeats_Rollback(c) ==
    /\ hreq[c].pc = "checked"
    /\ resp' = [op |-> "HoldSeats", id |-> NULL, code |-> "internal_error", labels |-> {}]
    /\ hreq' = [hreq EXCEPT ![c] = [pc |-> "idle", seat_numbers |-> << >>, expires_at |-> 0]]
    /\ UNCHANGED <<seats, holds, now, sweep, seatsCache, countCache>>
    /\ UNCHANGED bookingVars
    /\ UNCHANGED auxVars
    /\ UNCHANGED poolVars

\* tx.Commit() returns an error, which CreateHold discards: the store keeps
\* nothing of the transaction, CreateHold returns the hold and nil, and the
\* handler invalidates the seat caches and answers 201
HoldSeats_CommitFails(c) ==
    /\ hreq[c].pc = "checked"
    /\ resp' = [op |-> "HoldSeats", id |-> Len(holds) + 1, code |-> "created", labels |-> {}]
    /\ hreq' = [hreq EXCEPT ![c] = [pc |-> "idle", seat_numbers |-> << >>, expires_at |-> 0]]
    /\ InvalidateSeatCaches
    /\ UNCHANGED <<seats, holds, now, sweep>>
    /\ UNCHANGED bookingVars
    /\ UNCHANGED auxVars
    /\ UNCHANGED poolVars

\* ----------------------------------------------------------- ReleaseHold
\* the transaction of PostgresEventRepository.ReleaseHold on an existing hold
ReleaseHoldTx(id) ==
    /\ seats' = SeatsReleased(seats, holds[id].seat_numbers)
    /\ holds' = [holds EXCEPT ![id].status = "expired"]

\* EventHandler.ReleaseHold, DELETE /api/events/holds/:holdId: GetHoldByID,
\* the repository's transaction, the cache invalidation and the response
ReleaseHoldHandler(id) ==
    IF id > Len(holds)
    THEN /\ resp' = [op |-> "ReleaseHold", id |-> id, code |-> "not_found", labels |-> {}]
         /\ UNCHANGED <<seats, holds, seatsCache, countCache>>
    ELSE /\ ReleaseHoldTx(id)
         /\ InvalidateSeatCaches
         /\ resp' = [op |-> "ReleaseHold", id |-> id, code |-> "ok", labels |-> {}]

\* a client of the event service calls the endpoint
ReleaseHold(id) ==
    /\ ReleaseHoldHandler(id)
    /\ UNCHANGED <<now, hreq, sweep>>
    /\ UNCHANGED bookingVars
    /\ UNCHANGED auxVars
    /\ UNCHANGED poolVars

\* ----------------------------------------------------------- ConfirmHold
\* the transaction of PostgresEventRepository.ConfirmHold on an existing hold
ConfirmHoldTx(id) ==
    /\ seats' = SeatsBooked(holds[id].seat_numbers)
    /\ holds' = [holds EXCEPT ![id].status = "confirmed"]

\* EventHandler.ConfirmHold, POST /api/events/holds/:holdId/confirm
ConfirmHoldHandler(id) ==
    IF id > Len(holds)
    THEN /\ resp' = [op |-> "ConfirmHold", id |-> id, code |-> "not_found", labels |-> {}]
         /\ UNCHANGED <<seats, holds, seatsCache, countCache>>
    ELSE /\ ConfirmHoldTx(id)
         /\ InvalidateSeatCaches
         /\ resp' = [op |-> "ConfirmHold", id |-> id, code |-> "ok", labels |-> {}]

\* a client of the event service calls the endpoint
ConfirmHold(id) ==
    /\ ConfirmHoldHandler(id)
    /\ UNCHANGED <<now, hreq, sweep>>
    /\ UNCHANGED bookingVars
    /\ UNCHANGED auxVars
    /\ UNCHANGED poolVars

\* --------------------------------------------------- CleanupExpiredHolds
\* SELECT * FROM holds WHERE expires_at < NOW() AND status = 'active'
ExpiredActiveHolds ==
    { h \in 1..Len(holds) : holds[h].expires_at < now /\ holds[h].status = "active" }

Sweep_Select ==
    /\ sweep.pc = "idle"
    /\ sweep' = [pc |-> "selected", sel |-> ExpiredActiveHolds, at |-> now]
    /\ UNCHANGED <<seats, holds, now, hreq, seatsCache, countCache, resp>>
    /\ UNCHANGED bookingVars
    /\ UNCHANGED auxVars
    /\ UNCHANGED poolVars

\* the labels of the selected holds
SweptLabels(sel) == UNION { Range(holds[h].seat_numbers) : h \in sel }

\* the loop over the selected holds and the commit
Sweep_Apply ==
    /\ sweep.pc = "selected"
    /\ seats' = [ s \in SeatLabels |->
                    IF s \in SweptLabels(sweep.sel)
                    THEN [status |-> "available", hold_id |-> NULL] ELSE seats[s] ]
    /\ holds' = [ h \in 1..Len(holds) |->
                    IF h \in sweep.sel THEN [holds[h] EXCEPT !.status = "expired"]
                    ELSE holds[h] ]
    /\ sweep' = [pc |-> "idle", sel |-> {}, at |-> 0]
    /\ UNCHANGED <<now, hreq, seatsCache, countCache, resp>>
    /\ UNCHANGED bookingVars
    /\ UNCHANGED auxVars
    /\ UNCHANGED poolVars

\* ------------------------------------------------------------------ time
Tick ==
    /\ now < MaxTime
    /\ now' = now + 1
    /\ UNCHANGED <<seats, holds, hreq, sweep, seatsCache, countCache, resp>>
    /\ UNCHANGED bookingVars
    /\ UNCHANGED auxVars
    /\ UNCHANGED poolVars

\* --------------------------------------------------------- generateSeats
\* strings are sequences of code points: 'A' is 65, '0' is 48
\* fmt.Sprintf("%d", n) for n >= 0
RECURSIVE Decimal(_)
Decimal(n) ==
    IF n < 10 THEN << 48 + n >> ELSE Decimal(n \div 10) \o << 48 + (n % 10) >>

\* the loop of generateRowName: a letter is put in front of result, the
\* index is divided by 26 and, unless it is 0, decremented
RECURSIVE RowNameLoop(_, _)
RowNameLoop(index, result) ==
    IF index \div 26 = 0 THEN << 65 + (index % 26) >> \o result
    ELSE RowNameLoop((index \div 26) - 1, << 65 + (index % 26) >> \o result)

generateRowName(index) == RowNameLoop(index, << >>)

\* the inner loop of generateSeats: the labels it appends for one row,
\* fmt.Sprintf("%s%d", rowName, seatNum)
RECURSIVE RowSeats(_, _, _, _, _)
RowSeats(rowName, seatNum, seatCount, totalSeats, width) ==
    IF seatNum <= width /\ seatCount < totalSeats
    THEN << rowName \o Decimal(seatNum) >>
         \o RowSeats(rowName, seatNum + 1, seatCount + 1, totalSeats, width)
    ELSE << >>

\* the outer loop of generateSeats, the string-id repository: one row per
\* pass, named generateRowName(rowIndex)
RECURSIVE SeatRows(_, _, _, _)
SeatRows(seatCount, rowIndex, totalSeats, width) ==
    IF seatCount < totalSeats
    THEN LET row == RowSeats(generateRowName(rowIndex), 1, seatCount, totalSeats, width)
         IN  row \o SeatRows(seatCount + Len(row), rowIndex + 1, totalSeats, width)
    ELSE << >>

\* generateSeats of event_repository.go; width is the literal 500 of the loop
generateSeats(totalSeats, width) == SeatRows(0, 0, totalSeats, width)

\* the outer loop of generateSeats, the uuid-id repository: row is a rune that
\* starts at 'A' and is incremented, printed with %c
RECURSIVE SeatRows_Rune(_, _, _, _)
SeatRows_Rune(seatCount, row, totalSeats, width) ==
    IF seatCount < totalSeats
    THEN LET rowSeats == RowSeats(<< row >>, 1, seatCount, totalSeats, width)
         IN  rowSeats \o SeatRows_Rune(seatCount + Len(rowSeats), row + 1, totalSeats, width)
    ELSE << >>

\* generateSeats of the uuid-id repository; width is the literal 50 of the loop
generateSeats_Rune(totalSeats, width) == SeatRows_Rune(0, 65, totalSeats, width)

\* CreateEvent of the string-id repository generates the seats of the event
CreateEvent(totalSeats, width) ==
    /\ gen' = [variant |-> "string-id", n |-> totalSeats, r |-> width,
               seat_numbers |-> generateSeats(totalSeats, width)]
    /\ UNCHANGED engineVars
    /\ UNCHANGED bookingVars
    /\ UNCHANGED <<resp, gev, stream, envelope>>
    /\ UNCHANGED poolVars

\* CreateEvent of the uuid-id repository generates the seats of the event
CreateEvent_Rune(totalSeats, width) ==
    /\ gen' = [variant |-> "uuid-id", n |-> totalSeats, r |-> width,
               seat_numbers |-> generateSeats_Rune(totalSeats, width)]
    /\ UNCHANGED engineVars
    /\ UNCHANGED bookingVars
    /\ UNCHANGED <<resp, gev, stream, envelope>>
    /\ UNCHANGED poolVars

\* -------------------------------------------------------------- GetEvent
\* SetAvailableSeats: DEL, SADD of the labels, EXPIRE. With no label nothing
\* is added and the key stays absent
SetAvailableSeats(seatNumbers) ==
    IF seatNumbers = {} THEN [hit |-> FALSE, val |-> {}]
    ELSE [hit |-> TRUE, val |-> seatNumbers]

\* EventHandler.GetEvent, the seat count: the cached count, or on a miss the
\* count read from the store
GetEvent_Count ==
    /\ gev.pc = "idle"
    /\ IF countCache # -1
       THEN gev' = [gev EXCEPT !.pc = "seats", !.count = countCache]
       ELSE gev' = [gev EXCEPT !.pc = "set_count", !.count = GetAvailableSeatCount]
    /\ UNCHANGED <<seats, holds, now, hreq, sweep, seatsCache, countCache, resp>>
    /\ UNCHANGED bookingVars
    /\ UNCHANGED <<gen, stream, envelope>>
    /\ UNCHANGED poolVars

\* SetAvailableSeatCount(eventID, availableSeats, 30*time.Second)
GetEvent_SetCount ==
    /\ gev.pc = "set_count"
    /\ countCache' = gev.count
    /\ gev' = [gev EXCEPT !.pc = "seats"]
    /\ UNCHANGED <<seats, holds, now, hreq, sweep, seatsCache, resp>>
    /\ UNCHANGED bookingVars
    /\ UNCHANGED <<gen, stream, envelope>>
    /\ UNCHANGED poolVars

\* the seat numbers: the cached set and the response, or on a miss the set
\* read from the store
GetEvent_Seats ==
    /\ gev.pc = "seats"
    /\ IF seatsCache.hit
       THEN /\ resp' = [op |-> "GetEvent", id |-> NULL, code |-> "ok",
                        labels |-> seatsCache.val]
            /\ gev' = IdleGetEvent
       ELSE /\ gev' = [gev EXCEPT !.pc = "set_seats", !.seat_numbers = GetAvailableSeats]
            /\ UNCHANGED resp
    /\ UNCHANGED <<seats, holds, now, hreq, sweep, seatsCache, countCache>>
    /\ UNCHANGED bookingVars
    /\ UNCHANGED <<gen, stream, envelope>>
    /\ UNCHANGED poolVars

\* SetAvailableSeats(eventID, seatNumbers, 30*time.Second) and the response
GetEvent_SetSeats ==
    /\ gev.pc = "set_seats"
    /\ seatsCache' = SetAvailableSeats(gev.seat_numbers)
    /\ resp' = [op |-> "GetEvent", id |-> NULL, code |-> "ok",
                labels |-> gev.seat_numbers]
    /\ gev' = IdleGetEvent
    /\ UNCHANGED <<seats, holds, now, hreq, sweep, countCache>>
    /\ UNCHANGED bookingVars
    /\ UNCHANGED <<gen, stream, envelope>>
    /\ UNCHANGED poolVars

\* the 30 seconds of a seat key are over: the cache drops the key
Cache_ExpireSeats ==
    /\ seatsCache.hit
    /\ seatsCache' = [hit |-> FALSE, val |-> {}]
    /\ UNCHANGED <<seats, holds, now, hreq, sweep, countCache, resp>>
    /\ UNCHANGED bookingVars
    /\ UNCHANGED auxVars
    /\ UNCHANGED poolVars

Cache_ExpireCount ==
    /\ countCache # -1
    /\ countCache' = -1
    /\ UNCHANGED <<seats, holds, now, hreq, sweep, seatsCache, resp>>
    /\ UNCHANGED bookingVars
    /\ UNCHANGED auxVars
    /\ UNCHANGED poolVars

\* ---------------------------------------------------------- SubmitBooking
\* GetBookingByHoldID: the rows WHERE hold_id = ?
BookingsByHoldID(holdID) ==
    { b \in 1..Len(bookings) : bookings[b].hold_id = holdID }

\* GET /api/events/holds/:holdId as SubmitBooking uses it: an error when
\* the hold is absent or its status is not active
GetHoldDetails(holdID) ==
    IF holdID > Len(holds) THEN "hold not found"
    ELSE IF holds[holdID].status # "active" THEN "hold not active"
    ELSE "nil"

SubmitsInFlight ==
    Cardinality({ p \in Submitters : sub[p].pc \in {"lookup_done", "hold_ok"} })

\* variant of Submit_Lookup without the existing-booking branch: the request
\* always goes on to the hold lookup
Submit_Lookup_NoExistingBranch(p, holdID) ==
    /\ sub[p].pc = "idle"
    /\ Len(bookings) + SubmitsInFlight < MaxBookings
    /\ sub' = [sub EXCEPT ![p] =
          [pc |-> "lookup_done", hold_id |-> holdID, booking_id |-> NULL]]
    /\ UNCHANGED resp
    /\ UNCHANGED engineVars
    /\ UNCHANGED <<bookings, log, offset, redelivered, workers, statusCache, notifications>>
    /\ UNCHANGED auxVars
    /\ UNCHANGED poolVars

\* SubmitBooking, the lookup by hold id: an existing booking is returned
Submit_Lookup(p, holdID) ==
    /\ sub[p].pc = "idle"
    /\ Len(bookings) + SubmitsInFlight < MaxBookings
    /\ IF BookingsByHoldID(holdID) # {}
       THEN /\ \E b \in BookingsByHoldID(holdID) :
                 resp' = [op |-> "SubmitBooking", id |-> b, code |-> "already_exists", labels |-> {}]
            /\ UNCHANGED sub
       ELSE /\ sub' = [sub EXCEPT ![p] =
                  [pc |-> "lookup_done", hold_id |-> holdID, booking_id |-> NULL]]
            /\ UNCHANGED resp
    /\ UNCHANGED engineVars
    /\ UNCHANGED <<bookings, log, offset, redelivered, workers, statusCache, notifications>>
    /\ UNCHANGED auxVars
    /\ UNCHANGED poolVars

\* variant of Submit_GetHold that does not look at the error of the hold
\* lookup
Submit_GetHold_IgnoreError(p) ==
    /\ sub[p].pc = "lookup_done"
    /\ sub' = [sub EXCEPT ![p].pc = "hold_ok"]
    /\ UNCHANGED resp
    /\ UNCHANGED engineVars
    /\ UNCHANGED <<bookings, log, offset, redelivered, workers, statusCache, notifications>>
    /\ UNCHANGED auxVars
    /\ UNCHANGED poolVars

\* SubmitBooking, the hold lookup at the event service
Submit_GetHold(p) ==
    /\ sub[p].pc = "lookup_done"
    /\ IF GetHoldDetails(sub[p].hold_id) # "nil"
       THEN /\ resp' = [op |-> "SubmitBooking", id |-> NULL, code |-> "invalid_hold", labels |-> {}]
            /\ sub' = [sub EXCEPT ![p] = [pc |-> "idle", hold_id |-> NULL, booking_id |-> NULL]]
       ELSE /\ sub' = [sub EXCEPT ![p].pc = "hold_ok"]
            /\ UNCHANGED resp
    /\ UNCHANGED engineVars
    /\ UNCHANGED <<bookings, log, offset, redelivered, workers, statusCache, notifications>>
    /\ UNCHANGED auxVars
    /\ UNCHANGED poolVars

\* PostgresBookingRepository.CreateBooking: the row the INSERT writes
NewBooking(holdID) ==
    [hold_id |-> holdID, status |-> "processing", payment_status |-> "pending",
     error_message |-> "NULL", confirmed_at |-> FALSE, failed_at |-> FALSE]

\* SubmitBooking, the insert of the booking row
Submit_Create(p) ==
    /\ sub[p].pc = "hold_ok"
    /\ bookings' = Append(bookings, NewBooking(sub[p].hold_id))
    /\ sub' = [sub EXCEPT ![p].pc = "created", ![p].booking_id = Len(bookings) + 1]
    /\ UNCHANGED engineVars
    /\ UNCHANGED <<resp, log, offset, redelivered, workers, statusCache, notifications>>
    /\ UNCHANGED auxVars
    /\ UNCHANGED poolVars

\* SubmitBooking, kafkaWriter.WriteMessages of the BookingRequest
Submit_Publish(p) ==
    /\ sub[p].pc = "created"
    /\ log' = Append(log, [booking_id |-> sub[p].booking_id, hold_id |-> sub[p].hold_id])
    /\ sub' = [sub EXCEPT ![p].pc = "published"]
    /\ UNCHANGED engineVars
    /\ UNCHANGED <<resp, bookings, offset, redelivered, workers, statusCache, notifications>>
    /\ UNCHANGED auxVars
    /\ UNCHANGED poolVars

\* SubmitBooking, the initial status snapshot and the 202 response
Submit_Snapshot(p) ==
    /\ sub[p].pc = "published"
    /\ statusCache' = [statusCache EXCEPT ![sub[p].booking_id] = "PROCESSING"]
    /\ resp' = [op |-> "SubmitBooking", id |-> sub[p].booking_id, code |-> "accepted", labels |-> {}]
    /\ sub' = [sub EXCEPT ![p] = [pc |-> "idle", hold_id |-> NULL, booking_id |-> NULL]]
    /\ UNCHANGED engineVars
    /\ UNCHANGED <<bookings, log, offset, redelivered, workers, notifications>>
    /\ UNCHANGED auxVars
    /\ UNCHANGED poolVars

\* ---------------------------------------------------- StreamBookingStatus
\* the statuses on which the stream closes
FinalStatus(status) == status = "confirmed" \/ status = "failed"

\* c.SSEvent("status", ...) of the row's status and, when the status is
\* final, c.SSEvent("complete", ...)
StreamEvents(status) ==
    IF FinalStatus(status)
    THEN << [event |-> "status", status |-> status],
            [event |-> "complete", status |-> status] >>
    ELSE << [event |-> "status", status |-> status] >>

\* GET /api/bookings/:bookingId/stream: the row is read, the initial status
\* is sent, and the handler returns at once on a final status
Stream_Connect(b) ==
    /\ stream.pc = "none"
    /\ IF b > Len(bookings)
       THEN /\ resp' = [op |-> "StreamBookingStatus", id |-> b, code |-> "not_found", labels |-> {}]
            /\ UNCHANGED stream
       ELSE /\ stream' = [pc |-> IF FinalStatus(bookings[b].status)
                                 THEN "returned" ELSE "polling",
                          booking_id |-> b,
                          status |-> bookings[b].status,
                          events |-> StreamEvents(bookings[b].status)]
            /\ UNCHANGED resp
    /\ UNCHANGED engineVars
    /\ UNCHANGED bookingVars
    /\ UNCHANGED <<gev, gen, envelope>>
    /\ UNCHANGED poolVars

\* variant of Stream_Poll that sends the status it has read whether or not
\* it differs from the status of the row it holds
Stream_Poll_NoCompare ==
    /\ stream.pc = "polling"
    /\ LET updated == bookings[stream.booking_id] IN
       stream' = [stream EXCEPT
           !.status = updated.status,
           !.events = @ \o StreamEvents(updated.status),
           !.pc = IF FinalStatus(updated.status) THEN "returned" ELSE "polling"]
    /\ UNCHANGED engineVars
    /\ UNCHANGED bookingVars
    /\ UNCHANGED <<resp, gev, gen, envelope>>
    /\ UNCHANGED poolVars

\* case <-ticker.C: the row is read again; a status that differs from the
\* one of the row held is sent, and a final status ends the handler. A
\* failed read (continue) leaves everything as it is
Stream_Poll ==
    /\ stream.pc = "polling"
    /\ LET updated == bookings[stream.booking_id] IN
       \/ /\ updated.status # stream.status
          /\ stream' = [stream EXCEPT
                !.status = updated.status,
                !.events = @ \o StreamEvents(updated.status),
                !.pc = IF FinalStatus(updated.status) THEN "returned" ELSE "polling"]
       \/ /\ updated.status = stream.status
          /\ UNCHANGED stream
       \/ UNCHANGED stream
    /\ UNCHANGED engineVars
    /\ UNCHANGED bookingVars
    /\ UNCHANGED <<resp, gev, gen, envelope>>
    /\ UNCHANGED poolVars

\* case <-c.Request.Context().Done(): the client has gone
Stream_Disconnect ==
    /\ stream.pc = "polling"
    /\ stream' = [stream EXCEPT !.pc = "disconnected"]
    /\ UNCHANGED engineVars
    /\ UNCHANGED bookingVars
    /\ UNCHANGED <<resp, gev, gen, envelope>>
    /\ UNCHANGED poolVars

\* -------------------------------------- processBooking and the object pool
\* the frame of a step on the pooled BookingRequest
EnvelopeFrame ==
    /\ UNCHANGED engineVars
    /\ UNCHANGED bookingVars
    /\ UNCHANGED <<resp, gev, gen, stream>>
    /\ UNCHANGED poolVars

\* bookingRequestPool.Get(): an object lying in the pool, or a new one when the
\* pool is empty or hands none out
Pool_Get ==
    /\ envelope.pc = "idle"
    /\ \E r \in envelope.free \cup {ZeroBookingRequest} :
          envelope' = [envelope EXCEPT !.pc = "got", !.req = r,
                          !.free = IF r \in envelope.free THEN @ \ {r} ELSE @]
    /\ EnvelopeFrame

\* json.Unmarshal of the message value into the pooled object
Pool_Decode(m) ==
    /\ envelope.pc = "got"
    /\ envelope' = [envelope EXCEPT !.pc = "decoded", !.req = Unmarshal(envelope.req, m),
                                    !.msg = m]
    /\ EnvelopeFrame

\* the deferred function of processBooking: resetBookingRequest, then Put
Pool_Put ==
    /\ envelope.pc = "decoded"
    /\ envelope' = [pc |-> "idle", req |-> ZeroBookingRequest, msg |-> NoValue,
                    free |-> envelope.free \cup {resetBookingRequest(envelope.req)}]
    /\ EnvelopeFrame

\* the runtime empties the pool at a garbage collection
Pool_Collect ==
    /\ envelope.pc = "idle"
    /\ envelope.free # {}
    /\ envelope' = [envelope EXCEPT !.free = {}]
    /\ EnvelopeFrame

\* ---------------------------------------------------------- message log
\* a message arrives on the topic whose value json.Unmarshal cannot decode
\* into a BookingRequest
UndecodableInLog == { i \in 1..Len(log) : log[i].booking_id = Undecodable }

Publish_Undecodable ==
    /\ Cardinality(UndecodableInLog) < MaxUndecodable
    /\ log' = Append(log, [booking_id |-> Undecodable, hold_id |-> NULL])
    /\ UNCHANGED engineVars
    /\ UNCHANGED <<resp, bookings, sub, offset, redelivered, workers, statusCache, notifications>>
    /\ UNCHANGED auxVars
    /\ UNCHANGED poolVars

\* at-least-once delivery: a message the reader has taken is delivered again
Redeliver(i) ==
    /\ i <= offset
    /\ redelivered < MaxRedeliveries
    /\ log' = Append(log, log[i])
    /\ redelivered' = redelivered + 1
    /\ UNCHANGED engineVars
    /\ UNCHANGED <<resp, bookings, sub, offset, workers, statusCache, notifications>>
    /\ UNCHANGED auxVars
    /\ UNCHANGED poolVars

\* variant of Reader_Dispatch that takes the message from the log and hands
\* it to no worker
Reader_Dispatch_Drop(w) ==
    /\ workers[w].pc = "idle"
    /\ offset < Len(log)
    /\ offset' = offset + 1
    /\ UNCHANGED engineVars
    /\ UNCHANGED <<resp, bookings, sub, log, redelivered, workers, statusCache, notifications>>
    /\ UNCHANGED auxVars
    /\ UNCHANGED poolVars

\* BookingProcessor.Start: ReadMessage, then the hand-over to a ready worker
\* (the reader is built with a GroupID and the code never calls
\* CommitMessages: ReadMessage itself commits the offset of what it returns)
Reader_Dispatch(w) ==
    /\ workers[w].pc = "idle"
    /\ w \in workerPool
    /\ offset < Len(log)
    /\ offset' = offset + 1
    /\ workers' = [workers EXCEPT ![w] =
          [pc |-> "received", booking_id |-> log[offset + 1].booking_id,
           hold_id |-> log[offset + 1].hold_id, outcome |-> "none"]]
    /\ UNCHANGED engineVars
    /\ UNCHANGED <<resp, bookings, sub, log, redelivered, statusCache, notifications>>
    /\ UNCHANGED auxVars
    /\ workerPool' = workerPool \ {w}
    /\ UNCHANGED <<reader, ctxDone, activeWorkers, processExited>>

\* --------------------------------------------------------- processBooking
\* PostgresBookingRepository.UpdateBookingStatus: the columns of the row of
\* bookingID the UPDATE sets; nil fields of the request are left out
UpdateBookingStatus(bookingID, status, paymentStatus, errorMessage, confirmedAt, failedAt) ==
    [bookings EXCEPT
        ![bookingID].status = status,
        ![bookingID].payment_status = paymentStatus,
        ![bookingID].error_message = IF errorMessage # "NULL" THEN errorMessage ELSE @,
        ![bookingID].confirmed_at = IF confirmedAt THEN TRUE ELSE @,
        ![bookingID].failed_at = IF failedAt THEN TRUE ELSE @]

\* BookingProcessor.updateBookingStatus: the row, then the status snapshot
updateBookingStatus(bookingID, status, paymentStatus, message, confirmedAt, failedAt) ==
    /\ bookings' = UpdateBookingStatus(bookingID, status, paymentStatus,
                       IF status = "failed" THEN message ELSE "NULL",
                       confirmedAt, failedAt)
    /\ statusCache' = [statusCache EXCEPT ![bookingID] = status]

\* variant of W_DecodeFails that ignores the error of json.Unmarshal and goes
\* on to the payment step
W_DecodeFails_GoesOn(w) ==
    /\ workers[w].pc = "received"
    /\ workers[w].booking_id = Undecodable
    /\ workers' = [workers EXCEPT ![w].pc = "payment"]
    /\ UNCHANGED engineVars
    /\ UNCHANGED <<resp, bookings, sub, log, offset, redelivered, statusCache, notifications>>
    /\ UNCHANGED auxVars
    /\ activeWorkers' = activeWorkers + 1
    /\ UNCHANGED <<reader, ctxDone, workerPool, processExited>>

\* json.Unmarshal returns an error: processBooking returns it before any
\* write, and the worker logs it
W_DecodeFails(w) ==
    /\ workers[w].pc = "received"
    /\ workers[w].booking_id = Undecodable
    /\ workers' = [workers EXCEPT ![w].pc = "finished", ![w].outcome = "decode_failed"]
    /\ UNCHANGED engineVars
    /\ UNCHANGED <<resp, bookings, sub, log, offset, redelivered, statusCache, notifications>>
    /\ UNCHANGED auxVars
    /\ activeWorkers' = activeWorkers + 1
    /\ UNCHANGED <<reader, ctxDone, workerPool, processExited>>

\* decode, then the status update to processing / payment
W_Begin(w) ==
    /\ workers[w].pc = "received"
    /\ workers[w].booking_id # Undecodable
    /\ updateBookingStatus(workers[w].booking_id, "processing", "payment",
                           "Processing payment...", FALSE, FALSE)
    /\ workers' = [workers EXCEPT ![w].pc = "payment"]
    /\ UNCHANGED engineVars
    /\ UNCHANGED <<resp, sub, log, offset, redelivered, notifications>>
    /\ UNCHANGED auxVars
    /\ activeWorkers' = activeWorkers + 1
    /\ UNCHANGED <<reader, ctxDone, workerPool, processExited>>

\* processPayment: the gateway accepts or declines
W_Payment(w) ==
    /\ workers[w].pc = "payment"
    /\ \/ workers' = [workers EXCEPT ![w].pc = "confirm"]
       \/ workers' = [workers EXCEPT ![w].pc = "release", ![w].outcome = "payment_failed"]
    /\ UNCHANGED engineVars
    /\ UNCHANGED <<resp, bookings, sub, log, offset, redelivered, statusCache, notifications>>
    /\ UNCHANGED auxVars
    /\ UNCHANGED poolVars

\* payment failed: eventService.ReleaseHold, its error ignored. The request
\* reaches the event service, or fails on the way (timeout, connection)
W_Release(w) ==
    /\ workers[w].pc = "release"
    /\ \/ ReleaseHoldHandler(workers[w].hold_id)
       \/ UNCHANGED <<seats, holds, seatsCache, countCache, resp>>
    /\ workers' = [workers EXCEPT ![w].pc = "mark_failed"]
    /\ UNCHANGED <<now, hreq, sweep>>
    /\ UNCHANGED <<bookings, sub, log, offset, redelivered, statusCache, notifications>>
    /\ UNCHANGED auxVars
    /\ UNCHANGED poolVars

\* payment failed: the booking is marked failed / failed
W_MarkFailed(w) ==
    /\ workers[w].pc = "mark_failed"
    /\ updateBookingStatus(workers[w].booking_id, "failed", "failed",
                           "Payment failed", FALSE, TRUE)
    /\ workers' = [workers EXCEPT ![w].pc = "notify"]
    /\ UNCHANGED engineVars
    /\ UNCHANGED <<resp, sub, log, offset, redelivered, notifications>>
    /\ UNCHANGED auxVars
    /\ UNCHANGED poolVars

\* payment succeeded: eventService.ConfirmHold; any status but 200 is an
\* error, and so is a request that fails on the way to the event service or
\* whose answer does not arrive (httpClient.Do returns an error)
W_Confirm(w) ==
    /\ workers[w].pc = "confirm"
    /\ \/ /\ ConfirmHoldHandler(workers[w].hold_id)
          /\ workers' = [workers EXCEPT
                ![w].pc = IF workers[w].hold_id > Len(holds)
                          THEN "mark_refund" ELSE "mark_confirmed",
                ![w].outcome = IF workers[w].hold_id > Len(holds)
                               THEN "confirm_failed" ELSE "confirmed"]
       \/ /\ UNCHANGED <<seats, holds, seatsCache, countCache, resp>>
          /\ workers' = [workers EXCEPT ![w].pc = "mark_refund",
                                        ![w].outcome = "confirm_failed"]
       \/ /\ ConfirmHoldHandler(workers[w].hold_id)
          /\ workers' = [workers EXCEPT ![w].pc = "mark_refund",
                                        ![w].outcome = "confirm_failed"]
    /\ UNCHANGED <<now, hreq, sweep>>
    /\ UNCHANGED <<bookings, sub, log, offset, redelivered, statusCache, notifications>>
    /\ UNCHANGED auxVars
    /\ UNCHANGED poolVars

\* variant of W_MarkRefund that treats the failed confirmation like a failed
\* payment: the worker goes on to release the hold and to mark the booking
\* failed / failed
W_MarkRefund_AsPaymentFailure(w) ==
    /\ workers[w].pc = "mark_refund"
    /\ workers' = [workers EXCEPT ![w].pc = "release"]
    /\ UNCHANGED engineVars
    /\ UNCHANGED <<resp, bookings, sub, log, offset, redelivered, statusCache, notifications>>
    /\ UNCHANGED auxVars
    /\ UNCHANGED poolVars

\* confirmation failed: the booking is marked failed / refund_pending
W_MarkRefund(w) ==
    /\ workers[w].pc = "mark_refund"
    /\ updateBookingStatus(workers[w].booking_id, "failed", "refund_pending",
                           "Failed to confirm seats", FALSE, TRUE)
    /\ workers' = [workers EXCEPT ![w].pc = "notify"]
    /\ UNCHANGED engineVars
    /\ UNCHANGED <<resp, sub, log, offset, redelivered, notifications>>
    /\ UNCHANGED auxVars
    /\ UNCHANGED poolVars

\* the booking is marked confirmed / completed
W_MarkConfirmed(w) ==
    /\ workers[w].pc = "mark_confirmed"
    /\ updateBookingStatus(workers[w].booking_id, "confirmed", "completed",
                           "Booking confirmed successfully", TRUE, FALSE)
    /\ workers' = [workers EXCEPT ![w].pc = "notify"]
    /\ UNCHANGED engineVars
    /\ UNCHANGED <<resp, sub, log, offset, redelivered, notifications>>
    /\ UNCHANGED auxVars
    /\ UNCHANGED poolVars

\* sendNotification: booking_confirmed after a confirmation, else booking_failed
NotificationType(w) ==
    IF workers[w].outcome = "confirmed" THEN "booking_confirmed" ELSE "booking_failed"

W_Notify(w) ==
    /\ workers[w].pc = "notify"
    /\ notifications' = [notifications EXCEPT
          ![workers[w].booking_id][NotificationType(w)] = @ + 1]
    /\ workers' = [workers EXCEPT ![w].pc = "finished"]
    /\ UNCHANGED engineVars
    /\ UNCHANGED <<resp, bookings, sub, log, offset, redelivered, statusCache>>
    /\ UNCHANGED auxVars
    /\ UNCHANGED poolVars

\* BookingWorker.start: processBooking has returned, the worker registers
\* in the ready queue again
W_Register(w) ==
    /\ workers[w].pc = "finished"
    /\ workers' = [workers EXCEPT ![w] = IdleWorker]
    /\ UNCHANGED engineVars
    /\ UNCHANGED <<resp, bookings, sub, log, offset, redelivered, statusCache, notifications>>
    /\ UNCHANGED auxVars
    /\ activeWorkers' = activeWorkers - 1
    /\ workerPool' = workerPool \cup {w}
    /\ UNCHANGED <<reader, ctxDone, processExited>>

\* ------------------------------------------------- BookingProcessor.Start
\* the frame of a step of the reader's control flow
ReaderFrame ==
    /\ UNCHANGED engineVars
    /\ UNCHANGED <<resp, bookings, sub, log, redelivered, statusCache, notifications>>
    /\ UNCHANGED auxVars

\* variant of Reader_Read that reads on while it holds a message it has not
\* handed over, keeping the newest
Reader_Read_Buffered ==
    /\ reader.pc \in {"loop", "read"}
    /\ ~ctxDone
    /\ offset < Len(log)
    /\ offset' = offset + 1
    /\ reader' = [reader EXCEPT !.pc = "read", !.msg = log[offset + 1]]
    /\ ReaderFrame
    /\ UNCHANGED <<workers, ctxDone, workerPool, activeWorkers, processExited>>

\* the default branch of the loop: ReadMessage returns the next message of
\* the log. The branch is taken only while the context is not done, and a
\* ReadMessage cut short by the cancellation leads back to the select
Reader_Read ==
    /\ reader.pc = "loop"
    /\ ~ctxDone
    /\ offset < Len(log)
    /\ offset' = offset + 1
    /\ reader' = [reader EXCEPT !.pc = "read", !.msg = log[offset + 1]]
    /\ ReaderFrame
    /\ UNCHANGED <<workers, ctxDone, workerPool, activeWorkers, processExited>>

\* variant of Reader_Hand that sends the message on a worker's job channel
\* and leaves the channel in workerPool
Reader_Hand_NoPop(w) ==
    /\ reader.pc = "read"
    /\ w \in workerPool
    /\ workers[w].pc = "idle"
    /\ workers' = [workers EXCEPT ![w] =
          [pc |-> "received", booking_id |-> reader.msg.booking_id,
           hold_id |-> reader.msg.hold_id, outcome |-> "none"]]
    /\ reader' = [reader EXCEPT !.pc = "loop", !.msg = NoMessage]
    /\ ReaderFrame
    /\ UNCHANGED <<offset, ctxDone, workerPool, activeWorkers, processExited>>

\* the dispatch select: a job channel is taken from workerPool and the
\* message is sent on it; its worker, waiting in its select, receives it.
\* With the context done as well the select may still take this case
Reader_Hand(w) ==
    /\ reader.pc = "read"
    /\ w \in workerPool
    /\ workers[w].pc = "idle"
    /\ workerPool' = workerPool \ {w}
    /\ workers' = [workers EXCEPT ![w] =
          [pc |-> "received", booking_id |-> reader.msg.booking_id,
           hold_id |-> reader.msg.hold_id, outcome |-> "none"]]
    /\ reader' = [reader EXCEPT !.pc = "loop", !.msg = NoMessage]
    /\ ReaderFrame
    /\ UNCHANGED <<offset, ctxDone, activeWorkers, processExited>>

\* the dispatch select, case <-ctx.Done(): return ctx.Err(). The message read
\* is dropped and shutdown is not called
Reader_Abandon ==
    /\ reader.pc = "read"
    /\ ctxDone
    /\ reader' = [reader EXCEPT !.pc = "returned", !.msg = NoMessage]
    /\ ReaderFrame
    /\ UNCHANGED <<offset, workers, ctxDone, workerPool, activeWorkers, processExited>>

\* main: a signal arrives and cancel() is called
Cancel ==
    /\ ~ctxDone
    /\ ctxDone' = TRUE
    /\ ReaderFrame
    /\ UNCHANGED <<offset, workers, reader, workerPool, activeWorkers, processExited>>

\* the loop's select, case <-ctx.Done(): p.shutdown() begins with the first
\* worker of p.workers
Reader_Shutdown ==
    /\ reader.pc = "loop"
    /\ ctxDone
    /\ reader' = [reader EXCEPT !.pc = "stopping", !.next = 1]
    /\ ReaderFrame
    /\ UNCHANGED <<offset, workers, ctxDone, workerPool, activeWorkers, processExited>>

\* shutdown, worker.stop(): w.quit <- true on the unbuffered channel. The
\* send completes when the worker waits in its select; the worker returns.
\* Its job channel stays in workerPool
Shutdown_Stop ==
    /\ reader.pc = "stopping"
    /\ workers[reader.next].pc = "idle"
    /\ workers' = [workers EXCEPT ![reader.next].pc = "exited"]
    /\ reader' = IF reader.next = NumWorkers
                 THEN [reader EXCEPT !.pc = "waiting", !.next = 0]
                 ELSE [reader EXCEPT !.next = @ + 1]
    /\ ReaderFrame
    /\ UNCHANGED <<offset, ctxDone, workerPool, activeWorkers, processExited>>

\* shutdown, case <-ticker.C: activeWorkers is 0 and shutdown returns; Start
\* returns ctx.Err()
Shutdown_Done ==
    /\ reader.pc = "waiting"
    /\ activeWorkers = 0
    /\ reader' = [reader EXCEPT !.pc = "returned"]
    /\ ReaderFrame
    /\ UNCHANGED <<offset, workers, ctxDone, workerPool, activeWorkers, processExited>>

\* shutdown, case <-timeout: the 30 seconds that began after the last
\* worker.stop() are over
Shutdown_Timeout ==
    /\ reader.pc = "waiting"
    /\ reader' = [reader EXCEPT !.pc = "returned"]
    /\ ReaderFrame
    /\ UNCHANGED <<offset, workers, ctxDone, workerPool, activeWorkers, processExited>>

\* main: Start has returned, main returns and the process ends with every
\* goroutine in it
Process_Exit ==
    /\ reader.pc = "returned"
    /\ ~processExited
    /\ processExited' = TRUE
    /\ ReaderFrame
    /\ UNCHANGED <<offset, workers, reader, ctxDone, workerPool, activeWorkers>>

\* ------------------------------------------------------------------ Next
\* the hold engine under arbitrary callers of its endpoints
NextEngine ==
    \/ \E c \in Clients, sn \in ReqSeatNumbers : HoldSeats_Check(c, sn)
    \/ \E c \in Clients : HoldSeats_Commit(c)
    \/ \E id \in HoldIds : ReleaseHold(id)
    \/ \E id \in HoldIds : ConfirmHold(id)
    \/ Sweep_Select
    \/ Sweep_Apply
    \/ Tick

SpecEngine == Init /\ [][NextEngine]_vars

\* HoldSeats with the failures of its transaction: two clients hold seats while
\* holds are released and time passes, and a statement or the commit of
\* CreateHold may fail
NextHold ==
    \/ \E c \in Clients, sn \in ReqSeatNumbers : HoldSeats_Check(c, sn)
    \/ \E c \in Clients : HoldSeats_Commit(c)
    \/ \E c \in Clients : HoldSeats_Rollback(c)
    \/ \E c \in Clients : HoldSeats_CommitFails(c)
    \/ \E id \in HoldIds : ReleaseHold(id)
    \/ Tick

SpecHold == Init /\ [][NextHold]_vars

\* the front door of the booking service: one user holds seats, concurrent
\* SubmitBooking requests arrive for the holds
NextFrontDoor ==
    \/ \E sn \in ReqSeatNumbers : HoldSeats_Check(1, sn)
    \/ HoldSeats_Commit(1)
    \/ \E p \in Submitters, h \in HoldIds : Submit_Lookup(p, h)
    \/ \E p \in Submitters : Submit_GetHold(p)
    \/ \E p \in Submitters : Submit_Create(p)
    \/ \E p \in Submitters : Submit_Publish(p)
    \/ \E p \in Submitters : Submit_Snapshot(p)

SpecFrontDoor == Init /\ [][NextFrontDoor]_vars

\* the front door against the life of a hold: a user holds seats, releases
\* or confirms the holds through the event service, and submits bookings
NextSubmitOnHold ==
    \/ \E sn \in ReqSeatNumbers : HoldSeats_Check(1, sn)
    \/ HoldSeats_Commit(1)
    \/ \E id \in HoldIds : ReleaseHold(id)
    \/ \E id \in HoldIds : ConfirmHold(id)
    \/ \E h \in HoldIds : Submit_Lookup(1, h)
    \/ Submit_GetHold(1)
    \/ Submit_Create(1)
    \/ Submit_Publish(1)
    \/ Submit_Snapshot(1)

SpecSubmitOnHold == Init /\ [][NextSubmitOnHold]_vars

\* the read path of the event service against the hold endpoints: a user
\* holds seats, holds are released and confirmed, GetEvent requests read the
\* seat views through the cache, and cache keys reach their TTL
NextCache ==
    \/ \E sn \in ReqSeatNumbers : HoldSeats_Check(1, sn)
    \/ HoldSeats_Commit(1)
    \/ \E id \in HoldIds : ReleaseHold(id)
    \/ \E id \in HoldIds : ConfirmHold(id)
    \/ GetEvent_Count
    \/ GetEvent_SetCount
    \/ GetEvent_Seats
    \/ GetEvent_SetSeats
    \/ Cache_ExpireSeats
    \/ Cache_ExpireCount

SpecCache == Init /\ [][NextCache]_vars

\* event creation: the seat generators run on every total_seats and row
\* width within the bounds
NextGen ==
    \/ \E n \in 1..MaxSeats, r \in 1..MaxRowWidth : CreateEvent(n, r)
    \/ \E n \in 1..MaxSeats, r \in 1..MaxRowWidth : CreateEvent_Rune(n, r)

SpecGen == Init /\ [][NextGen]_vars

\* a status stream on a booking of the pipeline: a user holds the seats and
\* submits the booking, worker 1 processes the messages, the log delivers at
\* least once, and a client follows a booking over the stream
NextStream ==
    \/ HoldSeats_Check(1, <<"A1", "A2">>)
    \/ HoldSeats_Commit(1)
    \/ \E h \in HoldIds : Submit_Lookup(1, h)
    \/ Submit_GetHold(1)
    \/ Submit_Create(1)
    \/ Submit_Publish(1)
    \/ Submit_Snapshot(1)
    \/ \E i \in 1..(MaxBookings + MaxRedeliveries) : Redeliver(i)
    \/ Reader_Dispatch(1)
    \/ W_Begin(1)
    \/ W_Payment(1)
    \/ W_Release(1)
    \/ W_MarkFailed(1)
    \/ W_Confirm(1)
    \/ W_MarkRefund(1)
    \/ W_MarkConfirmed(1)
    \/ W_Notify(1)
    \/ W_Register(1)
    \/ \E b \in BookingIds : Stream_Connect(b)
    \/ Stream_Poll
    \/ Stream_Disconnect

SpecStream == Init /\ [][NextStream]_vars

\* a worker's calls of processBooking on a sequence of messages, seen from the
\* object pool
NextEnvelope ==
    \/ Pool_Get
    \/ \E m \in MessageValues : Pool_Decode(m)
    \/ Pool_Put
    \/ Pool_Collect

SpecEnvelope == Init /\ [][NextEnvelope]_vars

\* the pipeline with a message on the topic that is not a BookingRequest: a
\* booking is submitted, an undecodable message arrives before or after its
\* message, the reader hands each message to worker 1
NextPoison ==
    \/ HoldSeats_Check(1, <<"A1", "A2">>)
    \/ HoldSeats_Commit(1)
    \/ \E h \in HoldIds : Submit_Lookup(1, h)
    \/ Submit_GetHold(1)
    \/ Submit_Create(1)
    \/ Submit_Publish(1)
    \/ Submit_Snapshot(1)
    \/ Publish_Undecodable
    \/ Reader_Read
    \/ Reader_Hand(1)
    \/ W_DecodeFails(1)
    \/ W_Begin(1)
    \/ W_Payment(1)
    \/ W_Release(1)
    \/ W_MarkFailed(1)
    \/ W_Confirm(1)
    \/ W_MarkRefund(1)
    \/ W_MarkConfirmed(1)
    \/ W_Notify(1)
    \/ W_Register(1)

\* the worker goroutine is scheduled: a worker whose processBooking has
\* returned reaches the registration at the top of its loop
SpecPoison == Init /\ [][NextPoison]_vars /\ WF_vars(W_Register(1))

\* the reader and the workers at work: bookings are submitted for the holds
\* of a user, the log delivers at least once, the reader reads and hands
\* over, the workers process
NextPool ==
    \/ \E sn \in {<<"A1">>, <<"A2">>} : HoldSeats_Check(1, sn)
    \/ HoldSeats_Commit(1)
    \/ \E h \in HoldIds : Submit_Lookup(1, h)
    \/ Submit_GetHold(1)
    \/ Submit_Create(1)
    \/ Submit_Publish(1)
    \/ Submit_Snapshot(1)
    \/ \E i \in 1..(MaxBookings + MaxRedeliveries) : Redeliver(i)
    \/ Reader_Read
    \/ \E w \in Workers : Reader_Hand(w)
    \/ \E w \in Workers : W_Begin(w)
    \/ \E w \in Workers : W_Payment(w)
    \/ \E w \in Workers : W_Release(w)
    \/ \E w \in Workers : W_MarkFailed(w)
    \/ \E w \in Workers : W_Confirm(w)
    \/ \E w \in Workers : W_MarkRefund(w)
    \/ \E w \in Workers : W_MarkConfirmed(w)
    \/ \E w \in Workers : W_Notify(w)
    \/ \E w \in Workers : W_Register(w)

SpecPool == Init /\ [][NextPool]_vars

\* a step of worker w's goroutine while the process lives
WorkerStep(w) ==
    /\ ~processExited
    /\ \/ W_Begin(w)
       \/ W_Payment(w)
       \/ W_Release(w)
       \/ W_MarkFailed(w)
       \/ W_Confirm(w)
       \/ W_MarkRefund(w)
       \/ W_MarkConfirmed(w)
       \/ W_Notify(w)
       \/ W_Register(w)

\* the stream specification with every goroutine running on: the reader dispatches, worker 1
\* takes its steps, and the ticker of the stream handler fires again and
\* again with a read of the row that succeeds in the end
SpecStreamLive ==
    /\ Init /\ [][NextStream]_vars
    /\ WF_vars(Reader_Dispatch(1))
    /\ WF_vars(WorkerStep(1))
    /\ WF_vars(Stream_Poll)

\* the worker process to its end: a booking is submitted for the hold of a
\* user, the reader reads and hands over, a signal cancels the context,
\* shutdown runs, Start returns and the process ends
NextShutdown ==
    \/ HoldSeats_Check(1, <<"A1", "A2">>)
    \/ HoldSeats_Commit(1)
    \/ Submit_Lookup(1, 1)
    \/ Submit_GetHold(1)
    \/ Submit_Create(1)
    \/ Submit_Publish(1)
    \/ Submit_Snapshot(1)
    \/ \E i \in 1..(MaxBookings + MaxRedeliveries) : Redeliver(i)
    \/ Reader_Read
    \/ \E w \in Workers : Reader_Hand(w)
    \/ Reader_Abandon
    \/ Cancel
    \/ Reader_Shutdown
    \/ Shutdown_Stop
    \/ Shutdown_Done
    \/ Shutdown_Timeout
    \/ Process_Exit
    \/ \E w \in Workers : WorkerStep(w)

SpecShutdown == Init /\ [][NextShutdown]_vars

\* the goroutine of Start keeps running: it reads, hands over, leaves its
\* selects, goes through shutdown, and main returns once Start has
ReaderFairness ==
    /\ WF_vars(Reader_Read)
    /\ \A w \in Workers : WF_vars(Reader_Hand(w))
    /\ WF_vars(Reader_Abandon)
    /\ WF_vars(Reader_Shutdown)
    /\ WF_vars(Shutdown_Stop)
    /\ WF_vars(Shutdown_Done)
    /\ WF_vars(Shutdown_Timeout)
    /\ WF_vars(Process_Exit)

\* the worker process with every goroutine running on: the reader, and each
\* worker as long as the process lives
SpecShutdownLive ==
    /\ Init /\ [][NextShutdown]_vars
    /\ ReaderFairness
    /\ \A w \in Workers : WF_vars(WorkerStep(w))

\* the worker process with the reader running on and workers that may stay
\* inside a call of processBooking for ever; a worker that has left
\* processBooking goes on to register
SpecShutdownStall ==
    /\ Init /\ [][NextShutdown]_vars
    /\ ReaderFairness
    /\ \A w \in Workers : WF_vars(~processExited /\ W_Register(w))

\* the booking pipeline: a user holds the seats of the event and submits the
\* booking, the log delivers at least once, the worker pool processes the
\* messages and calls the release and confirm endpoints
Next ==
    \/ HoldSeats_Check(1, <<"A1", "A2">>)
    \/ HoldSeats_Commit(1)
    \/ \E h \in HoldIds : Submit_Lookup(1, h)
    \/ Submit_GetHold(1)
    \/ Submit_Create(1)
    \/ Submit_Publish(1)
    \/ Submit_Snapshot(1)
    \/ \E i \in 1..(MaxBookings + MaxRedeliveries) : Redeliver(i)
    \/ \E w \in Workers : Reader_Dispatch(w)
    \/ \E w \in Workers : W_Begin(w)
    \/ \E w \in Workers : W_Payment(w)
    \/ \E w \in Workers : W_Release(w)
    \/ \E w \in Workers : W_MarkFailed(w)
    \/ \E w \in Workers : W_Confirm(w)
    \/ \E w \in Workers : W_MarkRefund(w)
    \/ \E w \in Workers : W_MarkConfirmed(w)
    \/ \E w \in Workers : W_Notify(w)
    \/ \E w \in Workers : W_Register(w)

Spec == Init /\ [][Next]_vars

\* the goroutines of the pipeline keep running: a SubmitBooking request that
\* has inserted its row goes on to publish and to write the snapshot, the
\* reader hands a waiting message to an idle worker, and every worker goes
\* on with the message it holds
WorkerFairness(w) ==
    /\ WF_vars(Reader_Dispatch(w))
    /\ WF_vars(W_Begin(w))
    /\ WF_vars(W_Payment(w))
    /\ WF_vars(W_Release(w))
    /\ WF_vars(W_MarkFailed(w))
    /\ WF_vars(W_Confirm(w))
    /\ WF_vars(W_MarkRefund(w))
    /\ WF_vars(W_MarkConfirmed(w))
    /\ WF_vars(W_Notify(w))
    /\ WF_vars(W_Register(w))

Fairness ==
    /\ WF_vars(Submit_Publish(1))
    /\ WF_vars(Submit_Snapshot(1))
    /\ \A w \in Workers : WorkerFairness(w)

SpecLive == Init /\ [][Next]_vars /\ Fairness

\* ---------------------------------------------------------------- claims
\* holds of the table, by status
ConfirmedHolds == { h \in 1..Len(holds) : holds[h].status = "confirmed" }

\* active holds whose expires_at is not in the past
ActiveUnexpiredHolds ==
    { h \in 1..Len(holds) : holds[h].status = "active" /\ ~(holds[h].expires_at < now) }

\* active holds whose expires_at is in the past: logically expired
LogicallyExpiredHolds ==
    { h \in 1..Len(holds) : holds[h].status = "active" /\ holds[h].expires_at < now }

\* the two holds list a common seat label
SharesSeat(h1, h2) ==
    Range(holds[h1].seat_numbers) \cap Range(holds[h2].seat_numbers) # {}

\* C1: no double booking - no two confirmed holds list the same seat label.
C1_NoDoubleBooking ==
    \A h1 \in ConfirmedHolds : \A h2 \in ConfirmedHolds :
        h1 # h2 => ~SharesSeat(h1, h2)

\* C2: in no reachable state do two active, unexpired holds contain the same
\* seat label.
C2_NoOverlappingActiveHolds ==
    \A h1 \in ActiveUnexpiredHolds : \A h2 \in ActiveUnexpiredHolds :
        h1 # h2 => ~SharesSeat(h1, h2)

\* C3: ConfirmHold on a hold whose status is not active returns an error and
\* leaves every seat row and the hold row unchanged.
C3_ConfirmNeedsActiveHold ==
    [][ \A id \in HoldIds :
          (id <= Len(holds) /\ holds[id].status # "active" /\ ConfirmHold(id))
          => (resp'.code # "ok" /\ seats' = seats /\ holds' = holds) ]_vars

\* the edges of Invariant S2
SeatEdges ==
    { <<"available", "held">>, <<"held", "available">>, <<"held", "booked">> }

\* C4: a seat's status changes only along available->held, held->available
\* and held->booked; a booked seat never changes its status.
C4_SeatEdgesOnly ==
    [][ \A s \in SeatLabels :
          seats'[s].status # seats[s].status
          => <<seats[s].status, seats'[s].status>> \in SeatEdges ]_vars

\* the seat rows still attached to hold h: held, with hold_id = h
SeatsAttachedTo(h) ==
    { s \in SeatLabels : seats[s].status = "held" /\ seats[s].hold_id = h }

C5_OneBookingPerHold ==
    \A h \in HoldIds : Cardinality(BookingsByHoldID(h)) <= 1

\* the booking row is confirmed or failed
BookingTerminal(b) == bookings[b].status \in {"confirmed", "failed"}

\* C6: once a booking row is confirmed or failed, no write changes its
\* status again.
C6_StatusMonotonic ==
    [][ \A b \in 1..Len(bookings) :
          BookingTerminal(b) => bookings'[b].status = bookings[b].status ]_vars

\* C7: a worker that received a BookingRequest whose booking is already
\* confirmed or failed finishes the message without a payment, without a
\* ReleaseHold or ConfirmHold call, without a write to the booking row or
\* the status snapshot and without a notification.
C7_RedeliveryNoOp ==
    [][ \A w \in Workers :
          (/\ workers[w].pc = "received"
           /\ BookingTerminal(workers[w].booking_id)
           /\ workers'[w] # workers[w])
          => (/\ workers'[w].pc = "finished"
              /\ bookings' = bookings
              /\ statusCache' = statusCache
              /\ notifications' = notifications
              /\ seats' = seats
              /\ holds' = holds) ]_vars

\* C8: when a worker has finished a message whose payment failed, the hold
\* is expired, every seat of the hold is available with no hold id, and the
\* booking is failed with payment_status failed.
C8_PaymentFailureCompensated ==
    \A w \in Workers :
        (workers[w].pc = "finished" /\ workers[w].outcome = "payment_failed")
        => (/\ holds[workers[w].hold_id].status = "expired"
            /\ \A s \in Range(holds[workers[w].hold_id].seat_numbers) \cap SeatLabels :
                  seats[s] = [status |-> "available", hold_id |-> NULL]
            /\ bookings[workers[w].booking_id].status = "failed"
            /\ bookings[workers[w].booking_id].payment_status = "failed")

NotificationCount(b) ==
    notifications[b].booking_confirmed + notifications[b].booking_failed

\* C11: for every booking at most one notification is published, none while
\* the booking is processing, and its type is booking_confirmed for a
\* confirmed booking and booking_failed for a failed one.
C11_OneNotificationPerBooking ==
    \A b \in 1..Len(bookings) :
        /\ NotificationCount(b) <= 1
        /\ bookings[b].status = "processing" => NotificationCount(b) = 0
        /\ notifications[b].booking_confirmed > 0 => bookings[b].status = "confirmed"
        /\ notifications[b].booking_failed > 0 => bookings[b].status = "failed"

\* C12: the consumer offset covers a BookingRequest only after its booking
\* row is in a terminal state and its notification has been written.
C12_OffsetAfterSideEffects ==
    \A i \in 1..offset :
        /\ BookingTerminal(log[i].booking_id)
        /\ NotificationCount(log[i].booking_id) >= 1

C14_HoldIdIffHeld ==
    \A s \in SeatLabels : (seats[s].hold_id # NULL) <=> (seats[s].status = "held")

\* C15: every seat label of an active hold has a seat row with status held
\* and hold_id equal to the hold's id.
C15_ActiveHoldOwnsSeats ==
    \A h \in 1..Len(holds) :
        holds[h].status = "active"
        => \A s \in Range(holds[h].seat_numbers) :
              /\ s \in SeatLabels
              /\ seats[s] = [status |-> "held", hold_id |-> h]

\* C16: a hold's status changes only from active to confirmed or from
\* active to expired.
C16_HoldStatusEdges ==
    [][ \A h \in 1..Len(holds) :
          holds'[h].status # holds[h].status
          => (/\ holds[h].status = "active"
              /\ holds'[h].status \in {"confirmed", "expired"}) ]_vars

\* C17: ReleaseHold on a hold that is already expired succeeds and changes
\* no seat row and no hold row.
C17_ReleaseIdempotent ==
    [][ \A id \in HoldIds :
          (id <= Len(holds) /\ holds[id].status = "expired" /\ ReleaseHold(id))
          => (resp'.code = "ok" /\ seats' = seats /\ holds' = holds) ]_vars

\* the step of SubmitBooking that rejects the hold: invalid_hold, and no
\* booking row, no BookingRequest, no status snapshot
RejectsInvalidHold(p) ==
    (sub[p].pc = "lookup_done" /\ GetHoldDetails(sub[p].hold_id) # "nil" /\ Submit_GetHold(p))
    => (/\ resp'.op = "SubmitBooking"
        /\ resp'.code = "invalid_hold"
        /\ bookings' = bookings
        /\ log' = log
        /\ statusCache' = statusCache
        /\ sub'[p].pc = "idle")

MissingLabels(seatNumbers) == Range(seatNumbers) \ SeatLabels

\* C19: HoldSeats fails with the unknown-seat error exactly when some
\* requested label has no seat row, the error names exactly the missing
\* labels, and then no hold row is created and no seat row changes.
C19_UnknownSeatError ==
    [][ \A c \in Clients : \A sn \in ReqSeatNumbers :
          HoldSeats_Check(c, sn)
          => /\ (CheckSeatsExist(sn) # "nil") <=> (MissingLabels(sn) # {})
             /\ CheckSeatsExist(sn) # "nil"
                => /\ Range(NonExistentSeats(sn)) = MissingLabels(sn)
                   /\ resp'.op = "HoldSeats"
                   /\ resp'.labels = MissingLabels(sn)
                   /\ hreq'[c].pc = "idle"
                   /\ seats' = seats
                   /\ holds' = holds ]_vars

\* the seat is booked, or held by an active hold whose expiry time has not
\* passed
BookedOrActivelyHeld(s) ==
    \/ seats[s].status = "booked"
    \/ /\ seats[s].status = "held"
       /\ seats[s].hold_id \in 1..Len(holds)
       /\ holds[seats[s].hold_id].status = "active"
       /\ ~(holds[seats[s].hold_id].expires_at < now)

\* the requested labels whose seat is booked or actively held
TakenLabels(seatNumbers) ==
    { s \in Range(seatNumbers) \cap SeatLabels : BookedOrActivelyHeld(s) }

\* C20: a HoldSeats request with at least one seat booked or held by an
\* active, unexpired hold fails with seats_unavailable reporting the
\* unavailable labels, creates no hold row and changes no seat row.
C20_SeatsUnavailableError ==
    [][ \A c \in Clients : \A sn \in ReqSeatNumbers :
          (TakenLabels(sn) # {} /\ HoldSeats_Check(c, sn))
          => /\ resp'.op = "HoldSeats"
             /\ resp'.code = "seats_unavailable"
             /\ resp'.labels = TakenLabels(sn)
             /\ hreq'[c].pc = "idle"
             /\ seats' = seats
             /\ holds' = holds ]_vars

\* the cached seat views agree with the queries of the store
SeatCachesAgreeWithStore ==
    /\ seatsCache.hit => seatsCache.val = GetAvailableSeats
    /\ countCache # -1 => countCache = GetAvailableSeatCount

\* C21: cache safety - once a HoldSeats request has returned (a hold row
\* exists; ReleaseHold and ConfirmHold act on existing holds), a read of the
\* cached available-seat set or seat count misses or returns what the
\* committed store yields.
C21_CacheSafety ==
    Len(holds) > 0 => SeatCachesAgreeWithStore

\* the name of the row with 0-based index k in the order A, ..., Z, AA, AB,
\* ..., ZZ (one or two letters)
ExcelRowName(k) ==
    IF k < 26 THEN << 65 + k >>
    ELSE << 65 + ((k - 26) \div 26), 65 + ((k - 26) % 26) >>

\* the label of the i-th seat (from 1) when rows of width r are filled in
\* order: row (i-1) div r, position ((i-1) mod r) + 1
ExpectedLabel(i, r) ==
    ExcelRowName((i - 1) \div r) \o Decimal(((i - 1) % r) + 1)

\* C22: seat generation for total_seats N and row width R returns exactly N
\* seats with pairwise distinct labels, the i-th being position ((i-1) mod R)+1
\* of the row named A, B, ..., Z, AA, AB, ... with index (i-1) div R.
C22_SeatGeneration ==
    gen.variant # "none" =>
        /\ Len(gen.seat_numbers) = gen.n
        /\ \A i, j \in 1..Len(gen.seat_numbers) :
              i # j => gen.seat_numbers[i] # gen.seat_numbers[j]
        /\ \A i \in 1..Len(gen.seat_numbers) :
              gen.seat_numbers[i] = ExpectedLabel(i, gen.r)

\* the same property of the generator of the string-id repository alone
C22_SeatGeneration_StringId ==
    gen.variant = "string-id" =>
        /\ Len(gen.seat_numbers) = gen.n
        /\ \A i, j \in 1..Len(gen.seat_numbers) :
              i # j => gen.seat_numbers[i] # gen.seat_numbers[j]
        /\ \A i \in 1..Len(gen.seat_numbers) :
              gen.seat_numbers[i] = ExpectedLabel(i, gen.r)

\* the events the stream has written, seen as a history
StreamHistoryWellFormed ==
    LET ev == stream.events IN
    /\ stream.pc # "none" => Len(ev) >= 1 /\ ev[1].event = "status"
    /\ \A i \in 1..Len(ev) :
          /\ ev[i].event = "complete" =>
                /\ i = Len(ev)
                /\ i > 1
                /\ ev[i - 1].event = "status"
                /\ FinalStatus(ev[i - 1].status)
          /\ (ev[i].event = "status" /\ FinalStatus(ev[i].status)) =>
                /\ i + 1 = Len(ev)
                /\ ev[i + 1].event = "complete"
    /\ stream.pc = "returned" => ev[Len(ev)].event = "complete"

\* a step of an open stream that writes events: the row's status differed
\* from the last status sent, and the first event written is that status
StreamWritesOnChange ==
    (stream.pc = "polling" /\ stream'.events # stream.events) =>
        /\ bookings[stream.booking_id].status # stream.status
        /\ stream.status = stream.events[Len(stream.events)].status
        /\ Len(stream'.events) > Len(stream.events)
        /\ stream'.events[Len(stream.events) + 1] =
              [event |-> "status", status |-> bookings[stream.booking_id].status]

\* a step that ends an open stream writes complete or is the disconnect
StreamEndsOnCompleteOrDisconnect ==
    (stream.pc = "polling" /\ stream'.pc # "polling") =>
        \/ stream'.events[Len(stream'.events)].event = "complete"
        \/ Stream_Disconnect

\* once the handler has returned nothing more is written
StreamSilentAfterEnd ==
    stream.pc \in {"returned", "disconnected"} => stream' = stream

\* C23: a status stream on an existing booking writes one status event on
\* connect; complete is written exactly after a status event that carries
\* confirmed or failed, and nothing follows it; a further status event is
\* written only when the polled status differs from the last one written;
\* the stream ends only on complete or on the client's disconnect.
C23_StreamProtocol ==
    /\ []StreamHistoryWellFormed
    /\ [][StreamWritesOnChange]_vars
    /\ [][StreamEndsOnCompleteOrDisconnect]_vars
    /\ [][StreamSilentAfterEnd]_vars

\* the stream has followed a booking from processing to a final status
C23_Witness ==
    /\ stream.pc = "returned"
    /\ Len(stream.events) = 3
    /\ stream.events[1] = [event |-> "status", status |-> "processing"]
    /\ stream.events[3].event = "complete"

\* worker w is inside processBooking, its message counted in activeWorkers
Processing(w) ==
    workers[w].pc \in {"payment", "release", "mark_failed", "confirm",
                       "mark_refund", "mark_confirmed", "notify", "finished"}

\* worker w holds a message
Busy(w) == workers[w].pc = "received" \/ Processing(w)

\* the messages being processed are counted by activeWorkers and are at most
\* one per worker; the reader holds a message exactly between ReadMessage
\* and the hand-over
PoolCountsBounded ==
    /\ activeWorkers = Cardinality({ w \in Workers : Processing(w) })
    /\ activeWorkers <= NumWorkers
    /\ (reader.msg # NoMessage) <=> (reader.pc = "read")

\* a message is taken from the log only by a reader that holds none, one at
\* a time
ReadsOnlyWhenEmptyHanded ==
    offset' # offset =>
        /\ reader.msg = NoMessage
        /\ offset' = offset + 1
        /\ reader'.msg = log[offset']

\* a worker receives a message only when it is idle, and the message is the
\* one the reader held
HandsOnlyToIdleWorker ==
    \A w \in Workers :
        (workers'[w].pc = "received" /\ workers[w].pc # "received") =>
            /\ workers[w].pc = "idle"
            /\ reader.msg = [booking_id |-> workers'[w].booking_id,
                             hold_id |-> workers'[w].hold_id]
            /\ reader'.msg = NoMessage

\* with every worker busy and a message in the reader's hands nothing more
\* is taken from the log
BackPressure ==
    ((\A w \in Workers : Busy(w)) /\ reader.pc = "read") => offset' = offset

\* C24: at most N messages are being processed, one per worker; when all N
\* workers are busy the reader holds at most the one message it has just
\* read and takes no further message from the log until a worker is idle.
C24_BoundedInFlight ==
    /\ []PoolCountsBounded
    /\ [][ReadsOnlyWhenEmptyHanded]_vars
    /\ [][HandsOnlyToIdleWorker]_vars
    /\ [][BackPressure]_vars

\* every worker is busy, the reader holds a third message and more wait in
\* the log
C24_Witness ==
    /\ \A w \in Workers : Processing(w)
    /\ reader.pc = "read"
    /\ offset = NumWorkers + 1

\* no worker receives a message once the context is cancelled
NoDispatchAfterCancel ==
    ctxDone =>
        \A w \in Workers : ~(workers'[w].pc = "received" /\ workers[w].pc # "received")

\* when the process ends no worker is inside the pipeline
WorkersFinishBeforeExit ==
    processExited => \A w \in Workers : ~Busy(w)

\* every worker goroutine is gone: it has returned, or the process has ended
WorkersGone ==
    processExited \/ \A w \in Workers : workers[w].pc = "exited"

\* C25: after the cancellation the reader dispatches no further message,
\* every worker that is processing a message runs it to the end of the
\* pipeline before it exits, and every worker goroutine eventually exits,
\* wherever in its loop the reader was when the cancellation arrived.
C25_GracefulCancellation ==
    /\ [][NoDispatchAfterCancel]_vars
    /\ []WorkersFinishBeforeExit
    /\ (ctxDone ~> WorkersGone)

\* shutdown has been entered
InShutdown == reader.pc \in {"stopping", "waiting"}

\* shutdown has returned, and Start with it
ShutdownReturned == reader.pc = "returned"

\* C26: worker-pool shutdown always terminates - once entered it returns,
\* at the latest when the grace window is over, even if a worker never
\* finishes the message it is processing.
C26_ShutdownTerminates ==
    InShutdown ~> ShutdownReturned

\* the snapshot carries a final status, whatever its letter case
SnapshotFinal(b) == statusCache[b] \in {"confirmed", "failed"}

\* C27: the cached status snapshot of a booking is never moved from a final
\* status (confirmed or failed) back to a status that is not final, under any
\* interleaving of SubmitBooking's snapshot write with the worker's.
C27_SnapshotMonotonic ==
    [][\A b \in BookingIds : SnapshotFinal(b) => SnapshotFinal(b)']_vars

\* worker w is past a failed ConfirmHold and has not finished its message
AfterConfirmFailure(w) ==
    /\ workers[w].outcome = "confirm_failed"
    /\ workers[w].pc \in {"mark_refund", "notify"}

ActiveWithHeldSeats(h) ==
    /\ h \in 1..Len(holds)
    /\ holds[h].status = "active"
    /\ \E s \in Range(holds[h].seat_numbers) \cap SeatLabels :
          seats[s] = [status |-> "held", hold_id |-> h]

\* the steps of worker w after a failed payment come in the order release,
\* mark failed, notify: the row is untouched by the release step, and the
\* notification is written after the row
PaymentFailureOrder(w) ==
    (workers[w].outcome = "payment_failed" /\ workers'[w] # workers[w]) =>
        /\ workers[w].pc = "release" =>
              /\ workers'[w].pc = "mark_failed"
              /\ bookings' = bookings
              /\ notifications' = notifications
        /\ workers[w].pc = "mark_failed" =>
              /\ workers'[w].pc = "notify"
              /\ bookings'[workers[w].booking_id].status = "failed"
              /\ bookings'[workers[w].booking_id].payment_status = "failed"
              /\ notifications' = notifications
        /\ workers[w].pc = "notify" =>
              /\ workers'[w].pc = "finished"
              /\ notifications'[workers[w].booking_id].booking_failed =
                    notifications[workers[w].booking_id].booking_failed + 1

\* C29: on a payment failure the worker calls ReleaseHold, then sets the
\* booking row to failed, then publishes booking_failed; and no booking row
\* is failed with payment_status failed while its hold is still active with
\* held seats.
C29_ReleaseBeforeFailed ==
    /\ [][\A w \in Workers : PaymentFailureOrder(w)]_vars
    /\ [](\A b \in 1..Len(bookings) :
            (bookings[b].status = "failed" /\ bookings[b].payment_status = "failed")
               => ~ActiveWithHeldSeats(bookings[b].hold_id))

\* the order of the worker's steps alone
C29_OrderOnly ==
    [][\A w \in Workers : PaymentFailureOrder(w)]_vars

\* C30: in every reachable state a booking with status confirmed has
\* payment_status completed, its hold has status confirmed, and every seat
\* label of that hold is booked.
C30_ConfirmedBookingInvariant ==
    \A b \in 1..Len(bookings) :
        bookings[b].status = "confirmed" =>
            /\ bookings[b].payment_status = "completed"
            /\ bookings[b].hold_id \in 1..Len(holds)
            /\ holds[bookings[b].hold_id].status = "confirmed"
            /\ \A s \in Range(holds[bookings[b].hold_id].seat_numbers) \cap SeatLabels :
                  seats[s].status = "booked"

\* C31: ReleaseHold(id) and the expired-hold sweep change only seats owned by
\* a hold being released (seat rows whose hold_id is that hold's id): every
\* other seat row, one held by a different hold or carrying no such hold id
\* among them, is left as it was.
C31_ReleaseTouchesOwnSeatsOnly ==
    [][ /\ \A id \in HoldIds :
              ReleaseHold(id) =>
                 \A s \in SeatLabels : seats[s].hold_id # id => seats'[s] = seats[s]
        /\ Sweep_Apply =>
              \A s \in SeatLabels :
                 seats[s].hold_id \notin sweep.sel => seats'[s] = seats[s] ]_vars

\* C32: when the expired-hold sweep completes, no hold is still active with an
\* expiry before the time the sweep started, every seat with status held
\* references a hold whose status is active, and the holds that were active and
\* not expired, with the seats they name, are as they were before the sweep.
C32_SweepPostcondition ==
    [][ Sweep_Apply =>
          /\ \A h \in 1..Len(holds') :
                ~(holds'[h].status = "active" /\ holds'[h].expires_at < sweep.at)
          /\ \A s \in SeatLabels :
                seats'[s].status = "held" =>
                   /\ seats'[s].hold_id \in 1..Len(holds')
                   /\ holds'[seats'[s].hold_id].status = "active"
          /\ \A h \in 1..Len(holds) :
                (holds[h].status = "active" /\ ~(holds[h].expires_at < sweep.at)) =>
                   /\ holds'[h] = holds[h]
                   /\ \A s \in Range(holds[h].seat_numbers) \cap SeatLabels :
                         seats'[s] = seats[s] ]_vars

\* C33: in every reachable store state the three availability views agree: a
\* seat is in the listing of GetAvailableSeats exactly when the query of
\* CheckSeatsAvailability does not return it, a request passes the check exactly
\* when all of its existing seats are in the listing, and GetAvailableSeatCount
\* is the number of labels in the listing.
C33_AvailabilityViewsAgree ==
    /\ \A s \in SeatLabels :
          (s \in GetAvailableSeats) <=> (s \notin UnavailableSeats(<<s>>))
    /\ \A sn \in ReqSeatNumbers :
          (CheckSeatsAvailability(sn) = "nil")
             <=> (Range(sn) \cap SeatLabels) \subseteq GetAvailableSeats
    /\ GetAvailableSeatCount = Cardinality(GetAvailableSeats)

\* one seat is held by a hold that has expired, so it is listed and passes the
\* check, while the other seat is booked
C33_Witness ==
    \E s, u \in SeatLabels :
       /\ seats[s].status = "held"
       /\ HoldExpiredSql(s) = "T"
       /\ s \in GetAvailableSeats
       /\ seats[u].status = "booked"
       /\ u \in UnavailableSeats(<<u>>)
       /\ GetAvailableSeatCount = 1

\* a HoldSeats request of client c is answered 201 Created in this step
HoldSeatsSucceeds(c) ==
    /\ hreq[c].pc = "checked"
    /\ hreq'[c].pc = "idle"
    /\ resp'.op = "HoldSeats"
    /\ resp'.code = "created"

\* a HoldSeats request of client c is answered with an error in this step
HoldSeatsFails(c) ==
    /\ hreq[c].pc \in {"idle", "checked"}
    /\ hreq'[c].pc = "idle"
    /\ resp' # resp
    /\ resp'.op = "HoldSeats"
    /\ resp'.code # "created"

\* C34: a successful HoldSeats appends exactly one hold row, active, expiring
\* at the request time plus the hold TTL, sets exactly the requested seats to
\* held with the new hold's id, and leaves every other seat and every other
\* hold row unchanged; a HoldSeats that is answered with an error changes no
\* seat and no hold row.
C34_HoldSeatsEffect ==
    [][ \A c \in Clients :
          /\ (hreq[c].pc = "idle" /\ hreq'[c].pc = "checked") =>
                hreq'[c].expires_at = now + HoldTTL
          /\ HoldSeatsSucceeds(c) =>
                /\ Len(holds') = Len(holds) + 1
                /\ holds'[Len(holds')] = [seat_numbers |-> hreq[c].seat_numbers,
                                          expires_at |-> hreq[c].expires_at,
                                          status |-> "active"]
                /\ resp'.id = Len(holds')
                /\ \A h \in 1..Len(holds) : holds'[h] = holds[h]
                /\ \A s \in SeatLabels :
                      IF s \in Range(hreq[c].seat_numbers)
                      THEN seats'[s] = [status |-> "held", hold_id |-> Len(holds')]
                      ELSE seats'[s] = seats[s]
          /\ HoldSeatsFails(c) => (seats' = seats /\ holds' = holds) ]_vars

\* worker w, holding a message that cannot be decoded, takes its step on it
DropsUndecodable(w) ==
    /\ workers[w].pc = "received"
    /\ workers[w].booking_id = Undecodable
    /\ workers'[w] # workers[w]

\* C35: a message that cannot be decoded is dropped: the step of the worker on
\* it changes no booking row, no status snapshot, no seat and no hold, publishes
\* no notification and leads straight to the end of processBooking, with no
\* payment and no hold operation; the worker then registers in the ready queue
\* again, free for the next message.
C35_UndecodableDropped ==
    /\ [][ \A w \in Workers :
             DropsUndecodable(w) =>
                /\ bookings' = bookings
                /\ statusCache' = statusCache
                /\ notifications' = notifications
                /\ seats' = seats
                /\ holds' = holds
                /\ workers'[w].pc = "finished" ]_vars
    /\ \A w \in {1} :
          (workers[w].outcome = "decode_failed")
             ~> (workers[w] = IdleWorker /\ w \in workerPool)

\* worker 1 has dropped the undecodable first message of the log and is at work
\* on the BookingRequest that followed it
C35_Witness ==
    /\ Len(log) >= 2
    /\ log[1].booking_id = Undecodable
    /\ offset = 2
    /\ workers[1].pc = "notify"
    /\ workers[1].booking_id \in BookingIds

\* a hold call of worker w fails on the way in this step: ConfirmHold returns
\* an error although the hold exists (the handler answers 200 for every hold
\* it finds), or ReleaseHold leaves an active hold as it was
HoldCallFailsOnTheWay(w) ==
    /\ workers[w].hold_id \in 1..Len(holds)
    /\ \/ /\ workers[w].pc = "confirm"
          /\ workers'[w].pc = "mark_refund"
       \/ /\ workers[w].pc = "release"
          /\ workers'[w].pc = "mark_failed"
          /\ holds[workers[w].hold_id].status = "active"
          /\ holds' = holds

\* C36: when ConfirmHold or ReleaseHold, called by the worker, fails with a
\* timeout or a connection failure, the attempt ends there, without a write of
\* a terminal status, and the message stays in the log beyond the committed
\* offset, to be delivered again.
C36_InfrastructureErrorRedelivers ==
    [][ \A w \in Workers :
          HoldCallFailsOnTheWay(w) =>
             /\ workers'[w].pc = "finished"
             /\ \E i \in (offset' + 1)..Len(log') :
                   log'[i].booking_id = workers[w].booking_id ]_vars

\* the BookingRequest a message value decodes to when every field is zero
\* before the decoding
DecodedFromZero(m) == Unmarshal(ZeroBookingRequest, m)

\* C37: the object a message is decoded into holds the zero value in every
\* field before the decoding, and while a message is processed the object holds,
\* in every field, what that message alone decodes to: no value of an earlier
\* message.
C37_EnvelopeZeroBeforeDecode ==
    /\ envelope.pc = "got" => envelope.req = ZeroBookingRequest
    /\ envelope.pc = "decoded" => envelope.req = DecodedFromZero(envelope.msg)

\* the stream has closed on a complete event that carries the status of the
\* row and, for a failed booking, the row's error message
StreamCompleted ==
    /\ stream.pc = "returned"
    /\ Len(stream.events) > 0
    /\ LET e == stream.events[Len(stream.events)] IN
       /\ e.event = "complete"
       /\ FinalStatus(e.status)
       /\ e.status = "failed" =>
             /\ "error_message" \in DOMAIN e
             /\ e.error_message # "NULL"

\* C38: a stream that is polling a booking whose row has reached confirmed or
\* failed eventually, unless the client disconnects, writes a complete event
\* with that final status, and with the error message when the status is
\* failed, and returns.
C38_StreamCompletes ==
    (stream.pc = "polling" /\ FinalStatus(bookings[stream.booking_id].status))
       ~> (stream.pc = "disconnected" \/ StreamCompleted)

\* the ready queue holds exactly the workers waiting in their select for a
\* job: a worker about to register is not in the queue and finds room in it,
\* and a reader with a message in hand and an empty queue has a busy worker
\* that will register
ReadyQueueSound ==
    /\ \A w \in Workers : (w \in workerPool) <=> (workers[w].pc = "idle")
    /\ \A w \in Workers :
          workers[w].pc = "finished" =>
             /\ w \notin workerPool
             /\ Cardinality(workerPool) < NumWorkers
    /\ (reader.pc = "read" /\ workerPool = {}) => \E w \in Workers : Busy(w)

\* a message leaves the reader's hands to one worker, taken out of the ready
\* queue in the same step, every other worker being left alone
HandedToOneWorker ==
    reader.pc = "read" /\ reader'.pc # "read" =>
       \E w \in workerPool :
          /\ w \notin workerPool'
          /\ workers'[w] = [pc |-> "received", booking_id |-> reader.msg.booking_id,
                            hold_id |-> reader.msg.hold_id, outcome |-> "none"]
          /\ \A v \in Workers \ {w} : workers'[v] = workers[v]

\* a worker keeps the message it was handed until it has processed it, enters
\* processBooking with it once, and then registers again
ProcessedOnce ==
    \A w \in Workers :
       /\ Busy(w) =>
             \/ workers'[w].booking_id = workers[w].booking_id
                   /\ workers'[w].hold_id = workers[w].hold_id
             \/ workers[w].pc = "finished" /\ workers'[w] = IdleWorker
       /\ Processing(w) => workers'[w].pc # "received"
       /\ workers[w].pc = "finished" => workers'[w] \in {workers[w], IdleWorker}
       /\ (workers'[w].pc = "payment" /\ workers[w].pc # "payment") =>
             workers[w].pc = "received"

\* C39: while the pool runs, every message the reader takes is handed to
\* exactly one worker and processed by it once; the ready queue never holds a
\* worker twice, a registration always finds room in it, and the worker the
\* reader takes from the queue is waiting for the message, so the hand-off
\* completes and reader and workers never block each other for ever.
C39_HandOffExactlyOnce ==
    /\ []ReadyQueueSound
    /\ [][HandedToOneWorker]_vars
    /\ [][ProcessedOnce]_vars

\* worker 1 has processed a message and waits in the ready queue again, worker
\* 2 is at work on the second message, and the reader holds the third
C39_Witness ==
    /\ workerPool = {1}
    /\ workers[2].pc = "payment"
    /\ reader.pc = "read"
    /\ offset = 3
    /\ \E b \in BookingIds :
          notifications[b].booking_confirmed + notifications[b].booking_failed > 0

\* C40: a booking row never has both confirmed_at and failed_at set, a
\* confirmed booking has no error message, and a failed booking has
\* payment_status failed or refund_pending, an error message, and failed_at.
C40_TerminalRowShape ==
    \A b \in 1..Len(bookings) :
       /\ ~(bookings[b].confirmed_at /\ bookings[b].failed_at)
       /\ bookings[b].status = "confirmed" => bookings[b].error_message = "NULL"
       /\ bookings[b].status = "failed" =>
             /\ bookings[b].payment_status \in {"failed", "refund_pending"}
             /\ bookings[b].error_message # "NULL"
             /\ bookings[b].failed_at
====
